---- MODULE Spec2Model ----
(***************************************************************************)
(* Model of fineventstream.                                                *)
(*   src/src/producer/producer_company_news.py: the in-memory table        *)
(*     last_seen_news_ids and process_news_data, called by an arbitrary    *)
(*     caller with an arbitrary JSON-like input, symbol and wall-clock     *)
(*     time (Spec), and the polling loop that calls it (SpecLoop);         *)
(*   src/src/lambda_processor/*.py: the two lambda_handler functions and   *)
(*     the destination bucket (SpecLambda).                                *)
(*                                                                         *)
(* JSON values are tagged records [t, v]: t is the Python type of the      *)
(* value ("none", "int", "str") and v its number (0 when it has none).     *)
(* A bool is an int to isinstance(), so JSON true/false are the ints 1/0.  *)
(***************************************************************************)
EXTENDS Integers, Sequences, FiniteSets, TLC

VARIABLES last_seen_news_ids, pc, call, prev, emitted_ids

\* the polling loop of the producer (__main__)
VARIABLES loop_pc, symbol_index, raw_news_list, final_news_messages,
          send_attempts, invoked_this_cycle, fetch_outcomes, failed_articles

callervars == <<pc, call, prev, emitted_ids>>
loopvars   == <<loop_pc, symbol_index, raw_news_list, final_news_messages,
                send_attempts, invoked_this_cycle, fetch_outcomes, failed_articles>>

\* the stream processors (lambda_handler) and the destination bucket
VARIABLES lambda_pc, lambda_call, s3_objects

lambdavars == <<lambda_pc, lambda_call, s3_objects>>

vars == <<last_seen_news_ids, callervars, loopvars, lambdavars>>

----------------------------------------------------------------------------
(* Bounds of the model *)

MaxLen == 2      \* longest batch
MaxId  == 2      \* greatest article id
MaxDt  == 2      \* greatest in-range publish time
MaxNow == 1      \* wall-clock readings 0..MaxNow
MaxRecords == 2  \* longest batch of stream records
MaxPayload == 2  \* JSON values 1..MaxPayload in the payloads
MaxObjects == 2  \* most objects in the bucket

(* datetime.fromtimestamp: the two limits of the conversion, scaled down.  *)
(* Above MaxYearTs (year 9999, 253402300799) it raises ValueError; above   *)
(* MaxTimeT (the platform time_t) it raises OverflowError.                 *)
MaxYearTs == 5
MaxTimeT  == 8

Symbols == {"AAPL", "MSFT"}

----------------------------------------------------------------------------
(* JSON values *)

NoneV   == [t |-> "none", v |-> 0]
StrV    == [t |-> "str", v |-> 0]
IntV(n) == [t |-> "int", v |-> n]
IsoV(n) == [t |-> "iso", v |-> n]

YearOut  == MaxYearTs + 1
TimeTOut == MaxTimeT + 1

IdVals   == {NoneV, StrV} \cup {IntV(n) : n \in 0..MaxId}
PlainDts == {NoneV} \cup {IntV(n) : n \in 1..MaxDt}
OddDts   == {StrV, IntV(YearOut), IntV(TimeTOut)}

(* An entry of the fetched list: a dict (an article) or anything else.     *)
(* Articles with an unconvertible publish time have no id or the id MaxId. *)
Dicts    == [t : {"dict"}, id : IdVals, datetime : PlainDts]
            \cup [t : {"dict"}, id : {NoneV, IntV(MaxId)}, datetime : OddDts]
NonDict  == [t |-> "str", id |-> NoneV, datetime |-> NoneV]
Entries  == Dicts \cup {NonDict}

SeqsUpTo(S, n) == UNION {[1..k -> S] : k \in 0..n}

ListV(s)  == [t |-> "list", items |-> s]
NoneInput == [t |-> "none", items |-> <<>>]
DictInput == [t |-> "dict", items |-> <<>>]
Inputs    == {ListV(s) : s \in SeqsUpTo(Entries, MaxLen)} \cup {NoneInput, DictInput}

Times == 0..MaxNow

Max(a, b) == IF a >= b THEN a ELSE b

----------------------------------------------------------------------------
(* process_news_data *)

\* (variant: the table is read without regard to the symbol)
LastSeenGetAnySymbol(marks, sym) ==
    IF DOMAIN marks = {} THEN 0
    ELSE CHOOSE m \in {marks[s] : s \in DOMAIN marks} :
            \A s \in DOMAIN marks : m >= marks[s]

\* (variant: the lookup uses a key that is never stored)
LastSeenGetWrongKey(marks, sym) == 0

\* last_seen_news_ids.get(symbol_ticker, 0)
LastSeenGet(marks, sym) == IF sym \in DOMAIN marks THEN marks[sym] ELSE 0

IsInstanceInt(x) == x.t = "int"

\* (variant: the key is (id, datetime))
SortKeySwapped(x) ==
    << IF x.id.t = "int" THEN x.id.v ELSE 0,
       IF x.datetime.t = "int" THEN x.datetime.v ELSE 0 >>

\* the key of sorted(): (datetime or 0, id or 0)
SortKey(x) ==
    << IF IsInstanceInt(x.datetime) THEN x.datetime.v ELSE 0,
       IF IsInstanceInt(x.id) THEN x.id.v ELSE 0 >>

\* Python's tuple comparison k1 < k2
KeyLess(k1, k2) == k1[1] < k2[1] \/ (k1[1] = k2[1] /\ k1[2] < k2[2])

Front(s) == SubSeq(s, 1, Len(s) - 1)

RECURSIVE InsertSorted(_, _)
InsertSorted(x, s) ==
    IF s = <<>> THEN <<x>>
    ELSE IF KeyLess(SortKey(x), SortKey(s[Len(s)]))
         THEN Append(InsertSorted(x, Front(s)), s[Len(s)])
         ELSE Append(s, x)

\* sorted(news_articles_raw, key=...): stable, ascending
RECURSIVE Sorted(_)
Sorted(s) == IF s = <<>> THEN <<>> ELSE InsertSorted(s[Len(s)], Sorted(Front(s)))

\* the exception of the sorted() call: the key lambda calls x.get on every
\* entry, and a non-dict has no .get; the keys of dicts are pairs of ints,
\* whose comparison never fails, so no TypeError arises
SortException(s) ==
    IF \E i \in 1..Len(s) : s[i].t # "dict" THEN "AttributeError" ELSE "none"

\* except TypeError catches a TypeError only: any other exception escapes
SortRaises(s) == SortException(s) \notin {"none", "TypeError"}

\* datetime.fromtimestamp(int(v), tz=utc).isoformat() under
\* except (ValueError, TypeError): the exception that escapes and the string
ConvertDatetime(v) ==
    IF v.t = "none" THEN [exc |-> "none", utc |-> NoneV]
    ELSE IF v.t # "int" THEN [exc |-> "none", utc |-> NoneV]
    ELSE IF v.v > MaxTimeT THEN [exc |-> "OverflowError", utc |-> NoneV]
    ELSE IF v.v > MaxYearTs THEN [exc |-> "none", utc |-> NoneV]
    ELSE [exc |-> "none", utc |-> IsoV(v.v)]

\* (variant: < in place of <=)
AlreadySeenStrict(article_id, marks, sym) ==
    article_id.t = "int" /\ article_id.v < (IF sym \in DOMAIN marks THEN marks[sym] ELSE 0)

\* elif article_id <= last_seen_news_ids.get(symbol_ticker, 0): continue
AlreadySeen(article_id, marks, sym) ==
    IsInstanceInt(article_id) /\ article_id.v <= LastSeenGet(marks, sym)

\* (variant: the id is assigned, not max-ed)
BatchMaxStepAssign(bmax, article_id) ==
    IF article_id.t = "int" THEN article_id.v ELSE bmax

\* current_max_id_for_symbol_in_batch = max(current_max..., article_id)
BatchMaxStep(bmax, article_id) ==
    IF IsInstanceInt(article_id) THEN Max(bmax, article_id.v) ELSE bmax

ProcessedArticle(a, sym, now, utc) ==
    [symbol |-> sym, news_id |-> a.id, fetch_timestamp_utc |-> now,
     article_published_unix |-> a.datetime, article_published_utc |-> utc]

\* one iteration of the for loop over sorted_articles
LoopBody(acc, a, sym, marks, now) ==
    IF acc.exc # "none" THEN acc
    ELSE IF a.t # "dict" THEN acc
    ELSE IF AlreadySeen(a.id, marks, sym) THEN acc
    ELSE LET bmax == BatchMaxStep(acc.bmax, a.id)
             conv == ConvertDatetime(a.datetime)
         IN  IF conv.exc # "none"
             THEN [acc EXCEPT !.bmax = bmax, !.exc = conv.exc]
             ELSE [emitted |-> Append(acc.emitted, ProcessedArticle(a, sym, now, conv.utc)),
                   bmax |-> bmax, exc |-> "none"]

RECURSIVE Loop(_, _, _, _, _)
Loop(arts, n, sym, marks, now) ==
    IF n = 0
    THEN [emitted |-> <<>>, bmax |-> LastSeenGet(marks, sym), exc |-> "none"]
    ELSE LoopBody(Loop(arts, n - 1, sym, marks, now), arts[n], sym, marks, now)

\* (variant: the table is never written)
UpdatedMarksStale(marks, sym, bmax) == marks

\* if current_max... > last_seen_news_ids.get(symbol_ticker, 0): store it
UpdatedMarks(marks, sym, bmax) ==
    IF bmax > LastSeenGet(marks, sym)
    THEN [s \in DOMAIN marks \cup {sym} |-> IF s = sym THEN bmax ELSE marks[s]]
    ELSE marks

\* (variant: news_articles_raw.sort(key=...) sorts the caller's list in place)
RawAfterCallInPlace(raw) == IF SortRaises(raw) THEN raw ELSE Sorted(raw)

\* the caller's list object after the call: sorted() builds a new list
RawAfterCall(raw) == raw

Returned(emitted, marks, raw) ==
    [outcome |-> "returned", exc |-> "none", emitted |-> emitted, marks |-> marks, raw |-> raw]
Raised(exc, marks, raw) ==
    [outcome |-> "raised", exc |-> exc, emitted |-> <<>>, marks |-> marks, raw |-> raw]

\* (variant: a non-list input is rejected with an exception)
NonListResultRaise(raw, marks) == Raised("TypeError", marks, raw)

\* if news_articles_raw is None / not isinstance(..., list): return []
NonListResult(raw, marks) == Returned(<<>>, marks, raw)

\* the whole function: outcome, returned list, the table and the input after it
ProcessNewsDataResult(raw, sym, marks, now) ==
    IF raw.t # "list" THEN NonListResult(raw, marks)
    ELSE IF SortRaises(raw.items) THEN Raised("AttributeError", marks, raw)
    ELSE LET sorted_articles == IF SortException(raw.items) = "TypeError"
                                THEN raw.items
                                ELSE Sorted(raw.items)
             acc == Loop(sorted_articles, Len(sorted_articles), sym, marks, now)
         IN  IF acc.exc # "none"
             THEN Raised(acc.exc, marks, ListV(RawAfterCall(raw.items)))
             ELSE Returned(acc.emitted, UpdatedMarks(marks, sym, acc.bmax),
                           ListV(RawAfterCall(raw.items)))

----------------------------------------------------------------------------
(* The state machine: a caller that calls process_news_data, may call it   *)
(* again with the same arguments, and drops the result.                    *)

NoCall == [outcome |-> "nocall"]

IntIds(emitted) ==
    {emitted[i].news_id.v : i \in {j \in 1..Len(emitted) : IsInstanceInt(emitted[j].news_id)}}

CallRecord(raw, sym, now, res, marks) ==
    [outcome |-> res.outcome, exc |-> res.exc, emitted |-> res.emitted,
     news_articles_raw |-> raw, symbol_ticker |-> sym, now |-> now,
     raw_after |-> res.raw, pre |-> marks, post |-> res.marks]

\* the loop before its first iteration
LoopInit ==
    /\ loop_pc = "fetch"
    /\ symbol_index = 1
    /\ raw_news_list = NoneInput
    /\ final_news_messages = <<>>
    /\ send_attempts = <<>>
    /\ invoked_this_cycle = <<>>
    /\ fetch_outcomes = <<>>
    /\ failed_articles = [s \in Symbols |-> {}]

Init ==
    /\ last_seen_news_ids = <<>>
    /\ pc = "idle"
    /\ call = NoCall
    /\ prev = NoCall
    /\ emitted_ids = [s \in Symbols |-> {}]
    /\ LoopInit
    /\ lambda_pc = "idle"
    /\ lambda_call = NoCall
    /\ s3_objects = <<>>

DoCall(raw, sym, now) ==
    LET res == ProcessNewsDataResult(raw, sym, last_seen_news_ids, now)
    IN  /\ last_seen_news_ids' = res.marks
        /\ call' = CallRecord(raw, sym, now, res, last_seen_news_ids)
        /\ emitted_ids' = [emitted_ids EXCEPT ![sym] = @ \cup IntIds(res.emitted)]
        /\ pc' = "returned"
        /\ UNCHANGED <<loopvars, lambdavars>>

ProcessNewsData ==
    /\ pc = "idle"
    /\ \E raw \in Inputs, sym \in Symbols, now \in Times : DoCall(raw, sym, now)
    /\ prev' = NoCall

\* the next polling cycle fetches the same list again
ProcessNewsDataAgain ==
    /\ pc = "returned"
    /\ prev = NoCall
    /\ \E now \in Times : DoCall(call.raw_after, call.symbol_ticker, now)
    /\ prev' = call

Return ==
    /\ pc = "returned"
    /\ pc' = "idle"
    /\ call' = NoCall
    /\ prev' = NoCall
    /\ UNCHANGED <<last_seen_news_ids, emitted_ids, loopvars, lambdavars>>

Next == ProcessNewsData \/ ProcessNewsDataAgain \/ Return

Spec == Init /\ [][Next]_vars

----------------------------------------------------------------------------
(* The polling loop of the producer: for every symbol of SYMBOLS_TO_TRACK  *)
(* fetch, process, send every returned article; then sleep and start over. *)
(* An exception of process_news_data leaves the loop for good.             *)

\* config.SYMBOLS_TO_TRACK, two of its six symbols
SymbolsToTrack == <<"AAPL", "MSFT">>

\* what the fetch of one symbol returns: a list, or None on failure
LoopEntries ==
    [t : {"dict"}, id : {NoneV} \cup {IntV(n) : n \in 1..MaxId}, datetime : {IntV(1)}]
    \cup {[t |-> "dict", id |-> NoneV, datetime |-> IntV(TimeTOut)], NonDict}
LoopFetchResults ==
    {ListV(s) : s \in SeqsUpTo(LoopEntries, MaxLen)} \cup {NoneInput}

\* (variant: the result of a failed fetch is processed too)
ShouldProcessAlways(raw) == TRUE

\* if raw_news_list is not None
ShouldProcess(raw) == raw.t # "none"

\* (variant: the for loop over the messages breaks at the first failure)
AfterSendBreak(k, n, success) == IF k = n \/ ~success THEN "next" ELSE "publish"

\* for news_message in final_news_messages: on to the next message, or done
AfterSend(k, n, success) == IF k = n THEN "next" ELSE "publish"

\* the article a message was built from
ArticleOf(m) == [id |-> m.news_id, datetime |-> m.article_published_unix]

CurrentSymbol == SymbolsToTrack[symbol_index]

\* raw_news_list = fetch_company_news(...) returned None
FetchFailed ==
    /\ loop_pc = "fetch"
    /\ \E raw \in LoopFetchResults :
          /\ ~ShouldProcess(raw)
          /\ raw_news_list' = raw
          /\ fetch_outcomes' = Append(fetch_outcomes, raw.t)
    /\ send_attempts' = <<>>
    /\ loop_pc' = "next"
    /\ UNCHANGED <<lambdavars, last_seen_news_ids, callervars, symbol_index,
                   final_news_messages, invoked_this_cycle, failed_articles>>

\* the fetch returned a list: final_news_messages = process_news_data(...)
ProcessFetched ==
    /\ loop_pc = "fetch"
    /\ \E raw \in LoopFetchResults, now \in Times :
          LET res == ProcessNewsDataResult(raw, CurrentSymbol, last_seen_news_ids, now)
          IN  /\ ShouldProcess(raw)
              /\ raw_news_list' = raw
              /\ fetch_outcomes' = Append(fetch_outcomes, raw.t)
              /\ last_seen_news_ids' = res.marks
              /\ IF res.outcome = "raised"
                 THEN /\ loop_pc' = "stopped"
                      /\ UNCHANGED final_news_messages
                 ELSE /\ loop_pc' = IF res.emitted = <<>> THEN "next" ELSE "publish"
                      /\ final_news_messages' = res.emitted
    /\ invoked_this_cycle' = Append(invoked_this_cycle, CurrentSymbol)
    /\ send_attempts' = <<>>
    /\ UNCHANGED <<lambdavars, callervars, symbol_index, failed_articles>>

\* success = send_to_kinesis(...): True, or False after any exception
SendToKinesis ==
    /\ loop_pc = "publish"
    /\ \E success \in BOOLEAN :
          LET k == Len(send_attempts) + 1
              m == final_news_messages[k]
          IN  /\ send_attempts' = Append(send_attempts, [msg |-> m, success |-> success])
              /\ failed_articles' =
                    IF success THEN failed_articles
                    ELSE [failed_articles EXCEPT ![CurrentSymbol] = @ \cup {ArticleOf(m)}]
              /\ loop_pc' = AfterSend(k, Len(final_news_messages), success)
    /\ UNCHANGED <<lambdavars, last_seen_news_ids, callervars, symbol_index, raw_news_list,
                   final_news_messages, invoked_this_cycle, fetch_outcomes>>

\* the end of the iteration for one symbol; the next iteration assigns
\* raw_news_list and final_news_messages before it reads them, so their
\* values are dropped here
NextSymbol ==
    /\ loop_pc = "next"
    /\ IF symbol_index < Len(SymbolsToTrack)
       THEN symbol_index' = symbol_index + 1 /\ loop_pc' = "fetch"
       ELSE symbol_index' = symbol_index /\ loop_pc' = "cycle_done"
    /\ raw_news_list' = NoneInput
    /\ final_news_messages' = <<>>
    /\ send_attempts' = <<>>
    /\ UNCHANGED <<lambdavars, last_seen_news_ids, callervars, invoked_this_cycle,
                   fetch_outcomes, failed_articles>>

\* the sleep until the next cycle, and the start of that cycle
NextCycle ==
    /\ loop_pc = "cycle_done"
    /\ loop_pc' = "fetch"
    /\ symbol_index' = 1
    /\ invoked_this_cycle' = <<>>
    /\ fetch_outcomes' = <<>>
    /\ UNCHANGED <<lambdavars, last_seen_news_ids, callervars, raw_news_list, final_news_messages,
                   send_attempts, failed_articles>>

NextLoop == FetchFailed \/ ProcessFetched \/ SendToKinesis \/ NextSymbol \/ NextCycle

SpecLoop == Init /\ [][NextLoop]_vars

----------------------------------------------------------------------------
(* The stream processors: lambda_handler of processor_company_news.py and  *)
(* of processor_stock_quotes.py, the same code but for the S3 prefix.      *)
(* A record is its kinesis.data payload: missing, not Base64, not UTF-8,   *)
(* not JSON, or the text of a JSON value, compact or with extra spaces.    *)
(* event["Records"] is a list, as the stream's event source delivers it.   *)

Payloads ==
    [kind : {"missing", "bad_b64", "bad_utf8", "bad_json"}, v : {0}, spaced : {FALSE}]
    \cup [kind : {"json"}, v : 1..MaxPayload, spaced : BOOLEAN]

Events == SeqsUpTo(Payloads, MaxRecords)

\* the try block of the record loop: the exception it ends with
RecordException(record) ==
    CASE record.kind = "missing"  -> "none"
      [] record.kind = "bad_b64"  -> "binascii.Error"
      [] record.kind = "bad_utf8" -> "UnicodeDecodeError"
      [] record.kind = "bad_json" -> "JSONDecodeError"
      [] OTHER                    -> "none"

\* json.loads(payload_decoded): the value of the text
JsonLoads(record) == record.v

\* json.dumps(value): the compact text of the value
JsonDumps(value) == [kind |-> "json", v |-> value, spaced |-> FALSE]

\* (variant: a record that cannot be parsed is written as it came)
RecordLinesKeepBad(record) ==
    IF record.kind = "missing" THEN <<>>
    ELSE IF record.kind = "json" THEN <<JsonDumps(JsonLoads(record))>>
    ELSE <<record>>

\* one iteration of the record loop: the lines it appends
RecordLines(record) ==
    IF record.kind = "missing" THEN <<>>
    ELSE IF RecordException(record) # "none" THEN <<>>
    ELSE <<JsonDumps(JsonLoads(record))>>

\* processed_records_for_s3 after the loop, as its sequence of lines
RECURSIVE ProcessedRecordsForS3(_, _)
ProcessedRecordsForS3(records, n) ==
    IF n = 0 THEN <<>>
    ELSE ProcessedRecordsForS3(records, n - 1) \o RecordLines(records[n])

\* s3_key: processed/company_news/... or processed/stock_quotes/...
S3Prefix(handler) == handler

\* (variant: the failure of the write is logged and not raised)
S3WriteOutcomeSwallowed(s3_ok) == "returned"

\* except Exception as e: ... raise e
S3WriteOutcome(s3_ok) == IF s3_ok THEN "returned" ELSE "raised"

\* the whole handler: its outcome, its status code and the bucket after it
LambdaHandlerResult(handler, records, s3_ok, objects) ==
    LET lines == ProcessedRecordsForS3(records, Len(records))
    IN  IF lines = <<>>
        THEN [outcome |-> "returned", statusCode |-> 200, objects |-> objects]
        ELSE IF S3WriteOutcome(s3_ok) = "raised"
        THEN [outcome |-> "raised", statusCode |-> 0, objects |-> objects]
        ELSE [outcome |-> "returned", statusCode |-> 200,
              objects |-> IF s3_ok
                          THEN Append(objects, [prefix |-> S3Prefix(handler), body |-> lines])
                          ELSE objects]

\* lambda_handler of processor_company_news.py
NewsLambdaHandlerResult(records, s3_ok, objects) ==
    LambdaHandlerResult("company_news", records, s3_ok, objects)

\* lambda_handler of processor_stock_quotes.py
QuotesLambdaHandlerResult(records, s3_ok, objects) ==
    LambdaHandlerResult("stock_quotes", records, s3_ok, objects)

InvokeHandler(handler, records, s3_ok, res) ==
    /\ lambda_pc = "idle"
    /\ Len(s3_objects) < MaxObjects
    /\ lambda_call' = [handler |-> handler, records |-> records, s3_ok |-> s3_ok,
                       outcome |-> res.outcome, statusCode |-> res.statusCode,
                       objects_before |-> s3_objects]
    /\ s3_objects' = res.objects
    /\ lambda_pc' = "done"
    /\ UNCHANGED <<last_seen_news_ids, callervars, loopvars>>

NewsLambdaHandler ==
    \E records \in Events, s3_ok \in BOOLEAN :
        InvokeHandler("company_news", records, s3_ok,
                      NewsLambdaHandlerResult(records, s3_ok, s3_objects))

QuotesLambdaHandler ==
    \E records \in Events, s3_ok \in BOOLEAN :
        InvokeHandler("stock_quotes", records, s3_ok,
                      QuotesLambdaHandlerResult(records, s3_ok, s3_objects))

\* the invocation is over; the next batch of the stream can come
LambdaDone ==
    /\ lambda_pc = "done"
    /\ lambda_pc' = "idle"
    /\ lambda_call' = NoCall
    /\ UNCHANGED <<s3_objects, last_seen_news_ids, callervars, loopvars>>

NextLambda == NewsLambdaHandler \/ QuotesLambdaHandler \/ LambdaDone

SpecLambda == Init /\ [][NextLambda]_vars

----------------------------------------------------------------------------
(* Reading the state *)

Mark(t, s) == IF s \in DOMAIN t THEN t[s] ELSE 0

MaxOfSet(S) == IF S = {} THEN 0 ELSE CHOOSE m \in S : \A x \in S : m >= x

AfterCall     == pc = "returned"
AfterListCall == AfterCall /\ call.news_articles_raw.t = "list"
Items         == call.news_articles_raw.items
PreMark       == Mark(call.pre, call.symbol_ticker)
PostMark      == Mark(last_seen_news_ids, call.symbol_ticker)

IsRecord(e)   == e.t = "dict"
HasIntId(e)   == IsRecord(e) /\ e.id.t = "int"
AllRecords    == \A i \in 1..Len(Items) : IsRecord(Items[i])

\* how often the article a is in the batch, and in the returned list
CountIn(items, a) == Cardinality({i \in 1..Len(items) : items[i] = a})
CountEmitted(emitted, a) ==
    Cardinality({j \in 1..Len(emitted) :
                    /\ emitted[j].news_id = a.id
                    /\ emitted[j].article_published_unix = a.datetime})
EmittedByCall(a) == CountEmitted(call.emitted, a) = CountIn(Items, a)
SkippedByCall(a) == CountEmitted(call.emitted, a) = 0

GreatestIntId(items) ==
    MaxOfSet({items[i].id.v : i \in {j \in 1..Len(items) : HasIntId(items[j])}})

----------------------------------------------------------------------------
(* C1: over any sequence of calls, the mark of every symbol after a step   *)
(* is greater than or equal to its value before it: no call lowers it.     *)
C1_MarkNeverLowered ==
    [][\A s \in Symbols :
          Mark(last_seen_news_ids', s) >= Mark(last_seen_news_ids, s)]_vars

\* a call on a batch of only older and invalid-id articles, mark kept
C1_Witness ==
    /\ AfterListCall /\ call.outcome = "returned"
    /\ PreMark > 0 /\ PostMark = PreMark
    /\ \E i \in 1..Len(Items) : HasIntId(Items[i]) /\ Items[i].id.v < PreMark
    /\ \E i \in 1..Len(Items) : IsRecord(Items[i]) /\ ~HasIntId(Items[i])

(* C2: for every list input, non-records included, the call returns, and   *)
(* what it returns is what it returns for the batch without the            *)
(* non-records (stated for batches whose publish times all fit time_t).    *)
C2_NonRecordsSkipped ==
    (AfterListCall /\ \A i \in 1..Len(Items) : Items[i].datetime # IntV(TimeTOut))
    => /\ call.outcome = "returned"
       /\ call.emitted =
            ProcessNewsDataResult(ListV(SelectSeq(Items, IsRecord)),
                                  call.symbol_ticker, call.pre, call.now).emitted

(* C3: an accepted article whose publish time cannot be converted is       *)
(* emitted with article_published_utc absent, and the call does not raise  *)
(* (stated for batches of records only).                                   *)
Unconvertible(v) == v.t = "str" \/ (v.t = "int" /\ v.v > MaxYearTs)

C3_ConversionFailureTolerated ==
    (AfterListCall /\ AllRecords)
    => /\ call.outcome = "returned"
       /\ \A i \in 1..Len(Items) :
             (Unconvertible(Items[i].datetime)
              /\ ~(HasIntId(Items[i]) /\ Items[i].id.v <= PreMark))
             => \E j \in 1..Len(call.emitted) :
                   /\ call.emitted[j].news_id = Items[i].id
                   /\ call.emitted[j].article_published_unix = Items[i].datetime
                   /\ call.emitted[j].article_published_utc = NoneV

(* C4: within one call the threshold is the pre-call mark: every record    *)
(* with an integer id above it is emitted, every record with an integer id *)
(* at or below it is skipped.                                              *)
C4_ThresholdIsPreCallMark ==
    AfterListCall
    => \A i \in 1..Len(Items) :
          HasIntId(Items[i])
          => IF Items[i].id.v > PreMark
             THEN EmittedByCall(Items[i])
             ELSE SkippedByCall(Items[i])

(* C5: after a call that returns, the mark of the symbol is the maximum of *)
(* its pre-call value and the greatest integer id among the records of the *)
(* batch, the table being unchanged when that maximum is the pre-call      *)
(* value; after a call that fails part-way the table is the pre-call one.  *)
C5_MarkIsBatchMaximum ==
    AfterListCall
    => /\ call.outcome = "returned"
          => /\ PostMark = Max(PreMark, GreatestIntId(Items))
             /\ (GreatestIntId(Items) <= PreMark => last_seen_news_ids = call.pre)
       /\ call.outcome = "raised" => last_seen_news_ids = call.pre

\* the newest article by time is not the one with the greatest id
C5_Witness ==
    /\ AfterListCall /\ call.outcome = "returned"
    /\ Len(call.emitted) = 2
    /\ call.emitted[1].news_id = IntV(MaxId)
    /\ call.emitted[2].news_id = IntV(MaxId - 1)
    /\ PreMark < MaxId - 1
    /\ PostMark = MaxId

(* C6: in every state the mark of a symbol is the greatest integer news_id *)
(* emitted for it so far, and it is 0 or absent exactly when no article    *)
(* with an integer id has been emitted for it.                             *)
C6_MarkIsGreatestEmitted ==
    \A s \in Symbols :
        /\ Mark(last_seen_news_ids, s) = MaxOfSet(emitted_ids[s])
        /\ (s \notin DOMAIN last_seen_news_ids \/ last_seen_news_ids[s] = 0)
              <=> emitted_ids[s] = {}

C6_Witness ==
    /\ pc = "idle"
    /\ \E s \in Symbols :
          /\ Cardinality(emitted_ids[s]) >= 2
          /\ Mark(last_seen_news_ids, s) = MaxId
    /\ \E s \in Symbols : s \notin DOMAIN last_seen_news_ids

(* C7: an article with a missing or non-integer id is emitted by every     *)
(* call whose batch contains it, the call after an earlier one included,   *)
(* and a batch of such articles only leaves the mark as it was.            *)
C7_InvalidIdPassthrough ==
    AfterListCall
    => /\ \A i \in 1..Len(Items) :
             (IsRecord(Items[i]) /\ ~HasIntId(Items[i])) => EmittedByCall(Items[i])
       /\ (\A i \in 1..Len(Items) : ~HasIntId(Items[i]))
             => last_seen_news_ids = call.pre

(* C8: a call whose batch holds only articles with an integer id at or     *)
(* below the mark of the symbol (the empty batch included) returns an      *)
(* empty sequence and leaves the table unchanged.                          *)
C8_OldBatchEmitsNothing ==
    (AfterListCall
     /\ \A i \in 1..Len(Items) : HasIntId(Items[i]) /\ Items[i].id.v <= PreMark)
    => /\ call.outcome = "returned"
       /\ call.emitted = <<>>
       /\ last_seen_news_ids = call.pre

\* the batch holds the article whose id is the mark itself
C8_Witness ==
    /\ AfterListCall
    /\ PreMark > 0
    /\ Len(Items) = MaxLen
    /\ \A i \in 1..Len(Items) : HasIntId(Items[i]) /\ Items[i].id.v <= PreMark
    /\ \E i \in 1..Len(Items) : Items[i].id.v = PreMark
    /\ call.emitted = <<>>

(* C9: a call whose input is not a list returns an empty sequence, raises  *)
(* nothing and leaves the whole table unchanged, as the call with the      *)
(* empty batch does.                                                       *)
EmptyBatchResult ==
    ProcessNewsDataResult(ListV(<<>>), call.symbol_ticker, call.pre, call.now)

C9_NonListIsEmptyBatch ==
    (AfterCall /\ call.news_articles_raw.t # "list")
    => /\ call.outcome = "returned"
       /\ call.emitted = <<>>
       /\ last_seen_news_ids = call.pre
       /\ call.outcome = EmptyBatchResult.outcome
       /\ call.emitted = EmptyBatchResult.emitted
       /\ last_seen_news_ids = EmptyBatchResult.marks

C9_Witness ==
    /\ AfterCall
    /\ call.news_articles_raw = NoneInput
    /\ DOMAIN call.pre = Symbols
    /\ last_seen_news_ids = call.pre

(* C10: two calls with the same batch and symbol that start from the same  *)
(* mark have the same outcome, the same final mark and the same emitted    *)
(* sequence, and no call changes its input list.                           *)
SameStart ==
    /\ AfterCall /\ prev # NoCall
    /\ call.symbol_ticker = prev.symbol_ticker
    /\ call.news_articles_raw = prev.news_articles_raw
    /\ Mark(call.pre, call.symbol_ticker) = Mark(prev.pre, prev.symbol_ticker)

WithoutFetchTime(emitted) ==
    [j \in 1..Len(emitted) |-> [emitted[j] EXCEPT !.fetch_timestamp_utc = 0]]

OrderTime(m) == IF m.article_published_unix.t = "int" THEN m.article_published_unix.v ELSE 0
OrderId(m)   == IF m.news_id.t = "int" THEN m.news_id.v ELSE 0
OrderBefore(m, n) ==
    OrderTime(m) < OrderTime(n) \/ (OrderTime(m) = OrderTime(n) /\ OrderId(m) < OrderId(n))

\* f maps each returned article to the entry of the batch it was built from
IsStableSortedImage(emitted, items, f) ==
    /\ \A j \in 1..Len(emitted) :
          /\ emitted[j].news_id = items[f[j]].id
          /\ emitted[j].article_published_unix = items[f[j]].datetime
    /\ \A j, k \in 1..Len(emitted) :
          j < k => /\ f[j] # f[k]
                   /\ ~OrderBefore(emitted[k], emitted[j])
                   /\ ~OrderBefore(emitted[j], emitted[k]) => f[j] < f[k]

C11_SortedStableOutput ==
    (AfterListCall /\ call.outcome = "returned")
    => \E f \in [1..Len(call.emitted) -> 1..Len(Items)] :
          IsStableSortedImage(call.emitted, Items, f)

\* the article without publish time comes first although it was fetched last
C11_Witness ==
    /\ AfterListCall /\ call.outcome = "returned"
    /\ Len(Items) = 2 /\ Len(call.emitted) = 2
    /\ Items[1].datetime.t = "int" /\ Items[1].id = IntV(1)
    /\ Items[2].datetime = NoneV /\ Items[2].id = IntV(MaxId)
    /\ call.emitted[1].news_id = IntV(MaxId)
    /\ call.emitted[1].article_published_unix = NoneV
    /\ call.emitted[2].news_id = IntV(1)

(* C14: whenever computing or comparing the sort keys of a batch fails,    *)
(* the call does not raise: it processes the batch in its input order, and *)
(* acceptance, emission and the mark update go on as usual.                *)
UnsortedRun ==
    Loop(Items, Len(Items), call.symbol_ticker, call.pre, call.now)

C14_SortFailureFallsBack ==
    (AfterListCall /\ SortException(Items) # "none")
    => /\ call.outcome = "returned"
       /\ UnsortedRun.exc = "none"
            => /\ call.emitted = UnsortedRun.emitted
               /\ PostMark = UnsortedRun.bmax

(* C15: an article with an integer id that a call has emitted for a symbol *)
(* is in the result of no later call for that symbol.                      *)
C15_NeverEmittedTwice ==
    [][pc' = "returned"
       => IntIds(call'.emitted) \cap emitted_ids[call'.symbol_ticker] = {}]_vars

\* the same batch again: its articles were emitted, and now none is
C15_Witness ==
    /\ AfterListCall /\ prev # NoCall
    /\ Cardinality(IntIds(prev.emitted)) = 2
    /\ call.news_articles_raw = prev.news_articles_raw
    /\ call.outcome = "returned" /\ call.emitted = <<>>

(* C16: a call for a symbol leaves the entries of all other symbols as     *)
(* they were, and what it returns is what it returns when the table holds  *)
(* the entry of its own symbol only.                                       *)
OwnEntry(t, sym) == [s \in DOMAIN t \cap {sym} |-> t[s]]

C16_OtherSymbolsUntouched ==
    AfterCall
    => /\ \A s \in Symbols \ {call.symbol_ticker} :
             /\ s \in DOMAIN last_seen_news_ids <=> s \in DOMAIN call.pre
             /\ Mark(last_seen_news_ids, s) = Mark(call.pre, s)
       /\ LET alone == ProcessNewsDataResult(call.news_articles_raw, call.symbol_ticker,
                                            OwnEntry(call.pre, call.symbol_ticker), call.now)
          IN  /\ call.outcome = alone.outcome
              /\ call.emitted = alone.emitted
              /\ PostMark = Mark(alone.marks, call.symbol_ticker)

\* the other symbol's mark is above every id of the batch
C16_Witness ==
    /\ AfterListCall /\ call.outcome = "returned"
    /\ \E s \in Symbols \ {call.symbol_ticker} : Mark(call.pre, s) = MaxId
    /\ PreMark = 0 /\ PostMark = 1
    /\ Len(call.emitted) = 1

----------------------------------------------------------------------------
(* Reading the state of the polling loop *)

\* process_news_data has returned in the iteration under way
ProcessedThisIteration ==
    /\ loop_pc \in {"publish", "next"}
    /\ fetch_outcomes # <<>>
    /\ fetch_outcomes[Len(fetch_outcomes)] = "list"

SentMessages == [j \in 1..Len(send_attempts) |-> send_attempts[j].msg]

PublishedOnceInOrder ==
    ProcessedThisIteration
    => /\ SentMessages = SubSeq(final_news_messages, 1, Len(send_attempts))
       /\ loop_pc = "publish" => Len(send_attempts) < Len(final_news_messages)
       /\ loop_pc = "next" => Len(send_attempts) = Len(final_news_messages)

\* the mark is still at or above every integer id whose publish failed
MarkNotRolledBack ==
    \A s \in Symbols : \A a \in failed_articles[s] :
        a.id.t = "int" => Mark(last_seen_news_ids, s) >= a.id.v

SendKeepsTable ==
    loop_pc = "publish" => last_seen_news_ids' = last_seen_news_ids

\* a step in which process_news_data returns a non-empty list
ReturnsMessages == loop_pc = "fetch" /\ loop_pc' = "publish"

C13_InvokedForEverySymbol ==
    loop_pc = "cycle_done" => invoked_this_cycle = SymbolsToTrack

(* C13 as amended: in every polling cycle the symbols are reached in list  *)
(* order, process_news_data is invoked once for each reached symbol whose  *)
(* fetch returned a list and not for one whose fetch returned None; a      *)
(* cycle that ends has reached every symbol, and the loop is left only by  *)
(* a call that raised.                                                     *)
RECURSIVE FetchedSymbols(_)
FetchedSymbols(n) ==
    IF n = 0 THEN <<>>
    ELSE IF fetch_outcomes[n] = "list"
         THEN Append(FetchedSymbols(n - 1), SymbolsToTrack[n])
         ELSE FetchedSymbols(n - 1)

C13_InvokedOncePerFetchedSymbol ==
    /\ Len(fetch_outcomes) = IF loop_pc = "fetch" THEN symbol_index - 1 ELSE symbol_index
    /\ invoked_this_cycle = FetchedSymbols(Len(fetch_outcomes))
    /\ loop_pc = "cycle_done" => Len(fetch_outcomes) = Len(SymbolsToTrack)
    /\ loop_pc = "stopped" => fetch_outcomes[Len(fetch_outcomes)] = "list"

\* a cycle in which the first fetch failed and the second did not
C13_Witness ==
    /\ loop_pc = "cycle_done"
    /\ fetch_outcomes = <<"none", "list">>
    /\ invoked_this_cycle = <<SymbolsToTrack[2]>>

----------------------------------------------------------------------------
(* C17: both handlers raise exactly when the put_object write fails; a     *)
(* record whose payload is missing, not decodable or not JSON is skipped;  *)
(* the other records are written in input order as one object with one     *)
(* line each; with no such record no object is written and the status is   *)
(* 200.                                                                    *)
IsValidRecord(record) == record.kind = "json"
ValidRecords == SelectSeq(lambda_call.records, IsValidRecord)
WriteFailed  == ValidRecords # <<>> /\ ~lambda_call.s3_ok

C17_RaisesOnlyOnWriteFailure ==
    lambda_pc = "done"
    => /\ lambda_call.outcome = "raised" <=> WriteFailed
       /\ lambda_call.outcome = "returned" => lambda_call.statusCode = 200
       /\ (ValidRecords = <<>> \/ WriteFailed) => s3_objects = lambda_call.objects_before
       /\ (ValidRecords # <<>> /\ lambda_call.s3_ok)
            => /\ Len(s3_objects) = Len(lambda_call.objects_before) + 1
               /\ SubSeq(s3_objects, 1, Len(lambda_call.objects_before))
                     = lambda_call.objects_before
               /\ LET object == s3_objects[Len(s3_objects)]
                  IN  /\ object.prefix = lambda_call.handler
                      /\ Len(object.body) = Len(ValidRecords)
                      /\ \A j \in 1..Len(object.body) :
                            /\ object.body[j].kind = "json"
                            /\ object.body[j].v = ValidRecords[j].v

\* a batch of a record that is not JSON and a valid one, written
C17_Witness ==
    /\ lambda_pc = "done"
    /\ Len(lambda_call.records) = 2
    /\ lambda_call.records[1].kind = "bad_json"
    /\ lambda_call.records[2].kind = "json"
    /\ lambda_call.outcome = "returned"
    /\ Len(s3_objects) = Len(lambda_call.objects_before) + 1
    /\ Len(s3_objects[Len(s3_objects)].body) = 1

====
